---- MODULE Spec2Model ----
(***************************************************************************)
(* Contamination incident alerting pipeline of the AquaGuardian backend:   *)
(* the per-site incident state machine of CriticalAlertService, the        *)
(* asyncio tasks that feed it (simulator loop, manual test endpoint) and   *)
(* the emergency call sequence with its per-contact retries.               *)
(*                                                                         *)
(* Units.  Time is in whole seconds.  Turbidity is in hundredths of an NTU *)
(* (the sources round it to two decimals), so 45.0 NTU is 45 * NTU_UNIT.   *)
(* Confidence is in tenths of a percent (rounded to one decimal).          *)
(* The contamination score is in units of 1/10000, so 1.0 is SCORE_ONE and *)
(* turbidity / 100.0 is numerically the turbidity in hundredths.           *)
(*                                                                         *)
(* Scheduling.  All coroutines run on one asyncio event loop: a coroutine  *)
(* runs without interruption from one await to the next, so every action   *)
(* below is one such stretch of code.  Tasks that are ready run before the *)
(* clock moves on, and a sleeping task resumes at its wake-up instant.     *)
(***************************************************************************)
EXTENDS Integers, Sequences, FiniteSets, TLC

VARIABLES
    now,             \* time.time(), in seconds
    site_incidents,  \* CriticalAlertService.site_incidents: site_id -> state
    contacts,        \* CriticalAlertService.contacts, loaded at construction
    sim_alive,       \* the run_simulator task has not ended
    ready,           \* check_and_trigger tasks created and not yet run (FIFO)
    runs,            \* _execute_call_sequence tasks that still exist
    dispatched,      \* history: per site, the instants at which a run was created
    streak,          \* history: per site, the non-critical readings handled since
                     \* the last critical one, counted up to SAFE_FRAME_THRESHOLD
    last_handled,    \* history: the latest check_and_trigger of this instant
    frames,          \* camera frames that clients will still send
    alerts,          \* the alerts table: per (site, severity) its last two rows
    last_frame       \* history: what the latest camera frame was classified as

vars == <<now, site_incidents, contacts, sim_alive, ready, runs, dispatched,
          streak, last_handled, frames, alerts, last_frame>>

-----------------------------------------------------------------------------
(* Bounds of the model *)

\* time.time() when the service is constructed.  The wall clock is seconds
\* since 1970, far above COOLDOWN_SECONDS, and is taken to run forward.
StartTime == 1000
\* The clock is followed up to StartTime + Horizon.
Horizon == 602
\* check_and_trigger tasks that may be pending at once.
MaxPending == 2
\* Longest contact list.
MaxContacts == 2
\* Camera frames sent by clients.
MaxFrames == 2

\* Clock advances sampled while no timer is pending.
TickSteps == {300, 301}

-----------------------------------------------------------------------------
(* Program constants *)

COOLDOWN_SECONDS == 600
CRITICAL_NTU_THRESHOLD == 45
SAFE_FRAME_THRESHOLD == 10
max_retries == 2
RETRY_SLEEP == 2
POST_TIMEOUT == 10
PACING_SLEEP == 1
NTU_UNIT == 100
SCORE_ONE == 100 * NTU_UNIT

Min(a, b) == IF a <= b THEN a ELSE b

\* dict.get(key, default)
Get(d, key, default) == IF key \in DOMAIN d THEN d[key] ELSE default

-----------------------------------------------------------------------------
(* Inputs *)

SITES == {"SITE-01", "SITE-02", "TEST-SITE"}

\* Turbidity values sampled from the simulator's ranges, in hundredths of NTU.
TurbiditySamples == {200, 4500, 4501, 12000}

\* simulate_prediction: the turbidity range depends on the status drawn.
\* The confidence is sampled once in the range of each status.
simulate_prediction_from(site_id, samples) ==
    { [site_id |-> site_id, status |-> r[1], turbidity |-> r[2], confidence |-> r[3]] :
        r \in
          { <<"clear", t, 950>> : t \in {x \in samples : 50 <= x /\ x <= 400} }
          \cup
          { <<"moderate", t, 800>> : t \in {x \in samples : 400 <= x /\ x <= 2500} }
          \cup
          { <<"pollutant", t, 900>> : t \in {x \in samples : 2500 <= x /\ x <= 12000} } }

simulate_prediction(site_id) == simulate_prediction_from(site_id, TurbiditySamples)

\* The same with samples on both sides of every limit of the alert decision:
\* moderate at 15.0 and 15.01 NTU, pollutant at 45.0 and 45.01 NTU.
simulate_prediction_alerts(site_id) ==
    simulate_prediction_from(site_id, {200, 1500, 1501, 4500, 4501})

\* The fixed reading of POST /api/test/trigger-call (turbidity 99.9).
mock_prediction ==
    [site_id |-> "TEST-SITE", status |-> "pollutant", turbidity |-> 9990,
     confidence |-> 990]

\* _analyze_frame: the heuristic classification of a camera frame, always for
\* SITE-01, sampled as <<status, turbidity, confidence>> in the ranges of each
\* status (15.0 NTU is the limit of the warning alert).
analyze_frame ==
    { [site_id |-> "SITE-01", status |-> r[1], turbidity |-> r[2], confidence |-> r[3]] :
        r \in { <<"clear", 200, 900>>, <<"moderate", 1500, 800>>,
                <<"moderate", 1501, 800>>, <<"pollutant", 4501, 850>> } }

\* _load_contacts: the parsed file, or [] when it cannot be read.  An entry
\* is a dict with a "name" and, unless it was left out, a "phone"; the k-th
\* entry's phone number is written +k.
ContactLists ==
    UNION { { [k \in 1..n |-> IF k \in withPhone
                               THEN [name |-> k, phone |-> k]
                               ELSE [name |-> k]] :
              withPhone \in SUBSET (1..n) } : n \in 0..MaxContacts }

-----------------------------------------------------------------------------
(* CriticalAlertService.check_and_trigger *)

\* Variant: critical on high turbidity or on status pollutant, as the comment
\* above line 50 has it.
is_critical_Either(status, turbidity) ==
    status = "pollutant" \/ turbidity > CRITICAL_NTU_THRESHOLD * NTU_UNIT

is_critical(status, turbidity) ==
    status = "pollutant" /\ turbidity > CRITICAL_NTU_THRESHOLD * NTU_UNIT

\* Variant: the score is turbidity / 100 without the cap at 1.0.
contamination_score_Unclamped(turbidity) == turbidity

contamination_score(turbidity) == Min(SCORE_ONE, turbidity)

\* Variant: a new site starts with the current time as its last call time.
NewIncidentState_StampedNow ==
    [in_critical_incident |-> FALSE, last_call_time |-> now, normal_frames |-> 0]

NewIncidentState ==
    [in_critical_incident |-> FALSE, last_call_time |-> 0, normal_frames |-> 0]

\* Variant: the comparison written with >= .
cooldown_expired_AtLeast(t, state) ==
    (t - state.last_call_time) >= COOLDOWN_SECONDS

\* Variant: one cooldown for the whole service, any site's last call counts.
cooldown_expired_Shared(t, state) ==
    /\ (t - state.last_call_time) > COOLDOWN_SECONDS
    /\ \A s \in DOMAIN site_incidents :
          (t - site_incidents[s].last_call_time) > COOLDOWN_SECONDS

cooldown_expired(t, state) == (t - state.last_call_time) > COOLDOWN_SECONDS

\* Variant: a dispatch does not record its instant.
TrackerStep_NoStamp(state, critical, t) ==
    IF critical
    THEN [in_critical_incident |-> TRUE,
          last_call_time |-> state.last_call_time,
          normal_frames |-> 0]
    ELSE IF state.in_critical_incident
         THEN IF state.normal_frames + 1 >= SAFE_FRAME_THRESHOLD
              THEN [state EXCEPT !.in_critical_incident = FALSE,
                                 !.normal_frames = 0]
              ELSE [state EXCEPT !.normal_frames = state.normal_frames + 1]
         ELSE state

\* Variant: the lock is lifted one safe reading early.
TrackerStep_LiftEarly(state, critical, t) ==
    IF critical
    THEN [in_critical_incident |-> TRUE,
          last_call_time |-> IF cooldown_expired(t, state) THEN t
                             ELSE state.last_call_time,
          normal_frames |-> 0]
    ELSE IF state.in_critical_incident
         THEN IF state.normal_frames + 1 >= SAFE_FRAME_THRESHOLD - 1
              THEN [state EXCEPT !.in_critical_incident = FALSE,
                                 !.normal_frames = 0]
              ELSE [state EXCEPT !.normal_frames = state.normal_frames + 1]
         ELSE state

\* Variant: every critical reading records its instant as a dispatch.
TrackerStep_StampAlways(state, critical, t) ==
    IF critical
    THEN [in_critical_incident |-> TRUE,
          last_call_time |-> t,
          normal_frames |-> 0]
    ELSE IF state.in_critical_incident
         THEN IF state.normal_frames + 1 >= SAFE_FRAME_THRESHOLD
              THEN [state EXCEPT !.in_critical_incident = FALSE,
                                 !.normal_frames = 0]
              ELSE [state EXCEPT !.normal_frames = state.normal_frames + 1]
         ELSE state

\* Variant: the lock is lifted without resetting the counter.
TrackerStep_NoReset(state, critical, t) ==
    IF critical
    THEN [in_critical_incident |-> TRUE,
          last_call_time |-> IF cooldown_expired(t, state) THEN t
                             ELSE state.last_call_time,
          normal_frames |-> 0]
    ELSE IF state.in_critical_incident
         THEN IF state.normal_frames + 1 >= SAFE_FRAME_THRESHOLD
              THEN [state EXCEPT !.in_critical_incident = FALSE,
                                 !.normal_frames = state.normal_frames + 1]
              ELSE [state EXCEPT !.normal_frames = state.normal_frames + 1]
         ELSE state

\* The state of the site after the reading, lines 63-84.
TrackerStep(state, critical, t) ==
    IF critical
    THEN [in_critical_incident |-> TRUE,
          last_call_time |-> IF cooldown_expired(t, state) THEN t
                             ELSE state.last_call_time,
          normal_frames |-> 0]
    ELSE IF state.in_critical_incident
         THEN IF state.normal_frames + 1 >= SAFE_FRAME_THRESHOLD
              THEN [state EXCEPT !.in_critical_incident = FALSE,
                                 !.normal_frames = 0]
              ELSE [state EXCEPT !.normal_frames = state.normal_frames + 1]
         ELSE state

\* Variant: the call sequence is awaited in place of create_task, so it runs
\* inside check_and_trigger up to its first await, the post to the first contact.
NewRun_Awaited(site_id, score) ==
    [site_id |-> site_id, score |-> score, pc |-> "post", contact |-> 1,
     attempt |-> 0, issued |-> now, wake |-> now + POST_TIMEOUT,
     attempts |-> <<>>, calls |-> <<>>]

\* asyncio.create_task(self._execute_call_sequence(site_id, score))
NewRun(site_id, score) ==
    [site_id |-> site_id, score |-> score, pc |-> "start", contact |-> 0,
     attempt |-> 0, issued |-> 0, wake |-> 0, attempts |-> <<>>, calls |-> <<>>]

\* The handler of one reading; the run it starts remembers the reading that
\* started it (trigger, history only).
check_and_trigger ==
    /\ ready # <<>>
    /\ LET prediction_data == Head(ready)
           site_id == Get(prediction_data, "site_id", "SITE-01")
           turbidity == Get(prediction_data, "turbidity", 0)
           status == Get(prediction_data, "status", "unknown")
           critical == is_critical(status, turbidity)
           score == contamination_score(turbidity)
           incidents == IF site_id \in DOMAIN site_incidents
                        THEN site_incidents
                        ELSE site_incidents @@ (site_id :> NewIncidentState)
           state == incidents[site_id]
           start == critical /\ cooldown_expired(now, state)
       IN /\ site_incidents' =
                [incidents EXCEPT ![site_id] = TrackerStep(state, critical, now)]
          /\ runs' = IF start
                     THEN Append(runs, NewRun(site_id, score)
                                       @@ [trigger |-> prediction_data])
                     ELSE runs
          /\ dispatched' =
                IF start
                THEN [dispatched EXCEPT ![site_id] = Append(@, now)]
                ELSE dispatched
          /\ streak' =
                [streak EXCEPT ![site_id] =
                    IF status = "pollutant"
                       /\ turbidity > CRITICAL_NTU_THRESHOLD * NTU_UNIT
                    THEN 0 ELSE Min(SAFE_FRAME_THRESHOLD, @ + 1)]
          /\ last_handled' =
                [site_id |-> site_id, critical |-> critical, started |-> start]
    /\ ready' = Tail(ready)
    /\ UNCHANGED <<now, contacts, sim_alive, frames, alerts, last_frame>>

-----------------------------------------------------------------------------
(* The alerts written by the sources of readings *)

AlertKeys == SITES \X {"critical", "warning"}

\* The if / elif that decides on an Alert row (the same in run_simulator,
\* predict_frame and process_ws_frame).
\* Variant: the warning starts at 15.0 NTU.
alert_severity_AtLeast(data) ==
    IF data.status = "pollutant" THEN "critical"
    ELSE IF data.status = "moderate" /\ data.turbidity >= 15 * NTU_UNIT THEN "warning"
    ELSE "none"

alert_severity(data) ==
    IF data.status = "pollutant" THEN "critical"
    ELSE IF data.status = "moderate" /\ data.turbidity > 15 * NTU_UNIT THEN "warning"
    ELSE "none"

\* session.add(alert): the table with the row of this reading, if it has one.
\* A row is kept with its instant and the confidence of its reading.
Emit(table, data) ==
    LET severity == alert_severity(data)
        row == [at |-> now, confidence |-> data.confidence]
    IN IF severity = "none" THEN table
       ELSE [table EXCEPT ![<<data.site_id, severity>>] =
                IF Len(@) < 2 THEN Append(@, row) ELSE <<@[2], row>>]

-----------------------------------------------------------------------------
(* Sources of readings *)

\* One iteration of run_simulator's loop.  The database commit of the
\* prediction and of its alert may raise, which ends the task; otherwise the
\* rows are stored and the reading is handed to a new check_and_trigger task.  The loop then sleeps 2 s, during which
\* that task runs: an iteration never finds the previous one's task pending.
\* Beyond that the instant of an iteration is left free.
simulator_iteration(predictions) ==
    /\ sim_alive
    /\ Len(ready) < MaxPending
    /\ \A k \in 1..Len(ready) : ready[k] \notin predictions
    /\ \E data \in predictions, committed \in BOOLEAN :
          IF committed
          THEN /\ alerts' = Emit(alerts, data)
               /\ ready' = Append(ready, data)
               /\ UNCHANGED sim_alive
          ELSE /\ sim_alive' = FALSE
               /\ UNCHANGED <<ready, alerts>>
    /\ UNCHANGED <<now, site_incidents, contacts, runs, dispatched, streak,
                   last_handled, frames, last_frame>>

run_simulator == simulator_iteration(simulate_prediction("SITE-02"))

\* run_simulator with the readings sampled for the alert decision.
run_simulator_alerts == simulator_iteration(simulate_prediction_alerts("SITE-02"))

\* Variant: the endpoint stores the alert of its reading as the simulator does.
trigger_vapi_call_manually_WithAlert ==
    /\ Len(ready) < MaxPending
    /\ ready' = Append(ready, mock_prediction)
    /\ alerts' = Emit(alerts, mock_prediction)
    /\ UNCHANGED <<now, site_incidents, contacts, sim_alive, runs, dispatched,
                   streak, last_handled, frames, last_frame>>

\* POST /api/test/trigger-call: the reading goes to check_and_trigger only.
trigger_vapi_call_manually ==
    /\ Len(ready) < MaxPending
    /\ ready' = Append(ready, mock_prediction)
    /\ UNCHANGED <<now, site_incidents, contacts, sim_alive, runs, dispatched,
                   streak, last_handled, frames, alerts, last_frame>>

\* A camera frame, from the decoded and classified image to the commit: the
\* frame may fail to decode (the handler returns), and the commit may raise
\* (nothing is stored).  The handlers create no check_and_trigger task.
camera_frame(source, results) ==
    /\ frames > 0
    /\ frames' = frames - 1
    /\ \/ /\ last_frame' = [source |-> source, stored |-> FALSE]
          /\ UNCHANGED alerts
       \/ \E result \in results :
             /\ alerts' = Emit(alerts, result)
             /\ last_frame' = [source |-> source, stored |-> TRUE, data |-> result]
    /\ UNCHANGED <<now, site_incidents, contacts, sim_alive, ready, runs, dispatched,
                   streak, last_handled>>

\* The readings a classifier may return for the camera's site: any status,
\* turbidity and confidence (40.0, 59.9, 60.0, 99.0); the confidence of the
\* CNN is its largest softmax probability.
Readings ==
    { [site_id |-> "SITE-01", status |-> s, turbidity |-> t, confidence |-> c] :
        s \in {"clear", "moderate", "pollutant"}, t \in {200, 1501, 4501},
        c \in {400, 599, 600, 990} }

\* POST /api/predict-frame
predict_frame == camera_frame("predict_frame", analyze_frame)

\* POST /api/predict-frame with the classification left open: the handler
\* from the classified result on, for any reading a classifier may return.
classified_frame == camera_frame("predict_frame", Readings)

\* A camera_frame message on the WebSocket
process_ws_frame == camera_frame("process_ws_frame", analyze_frame)

-----------------------------------------------------------------------------
Init ==
    /\ now = StartTime
    /\ site_incidents = <<>>
    /\ contacts \in ContactLists
    /\ sim_alive = TRUE
    /\ ready = <<>>
    /\ runs = <<>>
    /\ dispatched = [s \in SITES |-> <<>>]
    /\ streak = [s \in SITES |-> SAFE_FRAME_THRESHOLD]
    /\ last_handled = [site_id |-> "none"]
    /\ frames \in 0..MaxFrames
    /\ alerts = [k \in AlertKeys |-> <<>>]
    /\ last_frame = [source |-> "none"]

-----------------------------------------------------------------------------
(* CriticalAlertService._execute_call_sequence and trigger_vapi_call *)

\* `if not phone_number: continue`
HasPhone(contact) == Get(contact, "phone", 0) # 0

\* The first entry at or after position i that has a phone number, or
\* Len(contacts) + 1 when the for loop runs off the end of the list.
NextCallable(i) ==
    LET S == { j \in i..Len(contacts) : HasPhone(contacts[j]) }
    IN IF S = {} THEN Len(contacts) + 1
       ELSE CHOOSE j \in S : \A k \in S : j <= k

\* Variant: the post is given three times the timeout.
Post_LongTimeout(run, j, a) ==
    [run EXCEPT !.pc = "post", !.contact = j, !.attempt = a,
                !.issued = now, !.wake = now + 3 * POST_TIMEOUT]

\* client.post(...) of attempt a for entry j is issued and awaited.
Post(run, j, a) ==
    [run EXCEPT !.pc = "post", !.contact = j, !.attempt = a,
                !.issued = now, !.wake = now + POST_TIMEOUT]

\* Variant: the pause is taken for an entry without a phone as well.
Continue_PauseOnSkip(run, i) ==
    IF i > Len(contacts)
    THEN [run EXCEPT !.pc = "done", !.contact = i, !.attempts = <<>>]
    ELSE IF ~HasPhone(contacts[i])
    THEN [run EXCEPT !.pc = "pace", !.contact = i, !.attempts = <<>>,
                     !.wake = now + PACING_SLEEP]
    ELSE Post([run EXCEPT !.attempts = <<>>], i, 0)

\* Variant: the loop stops once a contact's call has succeeded.
Continue_StopOnSuccess(run, i) ==
    LET j == NextCallable(i)
    IN IF j > Len(contacts)
          \/ (run.calls # <<>> /\ run.calls[Len(run.calls)].status = "completed")
       THEN [run EXCEPT !.pc = "done", !.contact = j, !.attempts = <<>>]
       ELSE Post([run EXCEPT !.attempts = <<>>], j, 0)

\* The for loop over the contacts resumes at entry i and runs to its next await.
Continue(run, i) ==
    LET j == NextCallable(i)
    IN IF j > Len(contacts)
       THEN [run EXCEPT !.pc = "done", !.contact = j, !.attempts = <<>>]
       ELSE Post([run EXCEPT !.attempts = <<>>], j, 0)

\* Variant: any response counts as success, whatever its status code.
attempt_outcome_AnyResponse(result) ==
    CASE result = "ok" -> "success"
      [] result = "http_error" -> "success"
      [] result = "exception" -> "failure"

\* Variant: no except clause, the exception leaves trigger_vapi_call.
attempt_outcome_Uncaught(result) ==
    CASE result = "ok" -> "success"
      [] result = "http_error" -> "failure"
      [] result = "exception" -> "raise"

\* What one awaited post means to trigger_vapi_call: status 200/201 returns
\* True, any other status is logged, an exception is caught and logged.
attempt_outcome(result) ==
    CASE result = "ok" -> "success"
      [] result = "http_error" -> "failure"
      [] result = "exception" -> "failure"

\* Variant: only calls that went through are logged.
log_call_OnlyCompleted(phone, status, score, site_id, committed) ==
    IF committed /\ status = "completed"
    THEN << [phone_number |-> phone, status |-> status,
             contamination_score |-> score, site_id |-> site_id] >>
    ELSE << >>

\* Variant: CallLog is built without site_id, so the column default applies.
log_call_DefaultSite(phone, status, score, site_id, committed) ==
    IF committed
    THEN << [phone_number |-> phone, status |-> status,
             contamination_score |-> score, site_id |-> "SITE-01"] >>
    ELSE << >>

\* _log_call: the row that is committed, or nothing when the session raises.
log_call(phone, status, score, site_id, committed) ==
    IF committed
    THEN << [phone_number |-> phone, status |-> status,
             contamination_score |-> score, site_id |-> site_id] >>
    ELSE << >>

\* Variant: _log_call without its try/except, a failed commit ends the task.
Finish_WriteFailureRaises(run, tried, success, committed) ==
    LET call_status == IF success THEN "completed" ELSE "failed"
        phone_number == contacts[run.contact].phone
    IN IF ~committed
       THEN [run EXCEPT !.pc = "crashed", !.attempts = tried]
       ELSE [run EXCEPT
               !.pc = "pace",
               !.wake = now + PACING_SLEEP,
               !.attempts = tried,
               !.calls = Append(@,
                   [contact |-> run.contact, tries |-> Len(tried),
                    status |-> call_status,
                    rows |-> log_call(phone_number, call_status, run.score,
                                      run.site_id, committed),
                    committed |-> committed,
                    first_at |-> tried[1].at, done_at |-> now])]

\* Variant: no pause between one contact and the next.
Finish_NoPacing(run, tried, success, committed) ==
    LET call_status == IF success THEN "completed" ELSE "failed"
        phone_number == contacts[run.contact].phone
    IN [run EXCEPT
          !.pc = "pace",
          !.wake = now,
          !.attempts = tried,
          !.calls = Append(@,
              [contact |-> run.contact, tries |-> Len(tried),
               status |-> call_status,
               rows |-> log_call(phone_number, call_status, run.score,
                                 run.site_id, committed),
               committed |-> committed,
               first_at |-> tried[1].at, done_at |-> now])]

\* trigger_vapi_call has returned `success`: lines 108-117.
Finish(run, tried, success, committed) ==
    LET call_status == IF success THEN "completed" ELSE "failed"
        phone_number == contacts[run.contact].phone
    IN [run EXCEPT
          !.pc = "pace",
          !.wake = now + PACING_SLEEP,
          !.attempts = tried,
          !.calls = Append(@,
              [contact |-> run.contact, tries |-> Len(tried),
               status |-> call_status,
               rows |-> log_call(phone_number, call_status, run.score,
                                 run.site_id, committed),
               committed |-> committed,
               first_at |-> tried[1].at, done_at |-> now])]

\* Variant: an empty contact list is reported by raising.
ExecStart_RaiseOnEmpty(i) ==
    /\ runs[i].pc = "start"
    /\ runs' = [runs EXCEPT ![i] =
                  IF contacts = <<>> THEN [@ EXCEPT !.pc = "crashed"]
                  ELSE Continue(@, 1)]
    /\ UNCHANGED <<now, site_incidents, contacts, sim_alive, ready, dispatched,
                   streak, last_handled, frames, alerts, last_frame>>

\* The first stretch of the task: the empty-list check, then the loop.
ExecStart(i) ==
    /\ runs[i].pc = "start"
    /\ runs' = [runs EXCEPT ![i] =
                  IF contacts = <<>> THEN [@ EXCEPT !.pc = "done"]
                  ELSE Continue(@, 1)]
    /\ UNCHANGED <<now, site_incidents, contacts, sim_alive, ready, dispatched,
                   streak, last_handled, frames, alerts, last_frame>>

\* The awaited post ends: a response, a transport error, or the timeout.
ProviderResponds(i) ==
    /\ runs[i].pc = "post"
    /\ now <= runs[i].wake
    /\ \E result \in {"ok", "http_error", "exception"}, committed \in BOOLEAN :
          LET run == runs[i]
              outcome == attempt_outcome(result)
              tried == Append(run.attempts,
                              [at |-> run.issued, end |-> now, ok |-> result = "ok"])
          IN /\ (now = run.wake => result = "exception")
             /\ runs' = [runs EXCEPT ![i] =
                   IF outcome = "raise"
                   THEN [run EXCEPT !.pc = "crashed", !.attempts = tried]
                   ELSE IF outcome = "success"
                   THEN Finish(run, tried, TRUE, committed)
                   ELSE IF run.attempt < max_retries
                   THEN [run EXCEPT !.pc = "backoff", !.attempts = tried,
                                    !.wake = now + RETRY_SLEEP]
                   ELSE Finish(run, tried, FALSE, committed)]
    /\ UNCHANGED <<now, site_incidents, contacts, sim_alive, ready, dispatched,
                   streak, last_handled, frames, alerts, last_frame>>

\* Variant: the pause before the retry waits on something that never comes.
Retry_NeverWoken(i) ==
    /\ runs[i].pc = "backoff"
    /\ runs[i].wake < runs[i].attempts[Len(runs[i].attempts)].end
    /\ runs' = [runs EXCEPT ![i] = Post(@, @.contact, @.attempt + 1)]
    /\ UNCHANGED <<now, site_incidents, contacts, sim_alive, ready, dispatched,
                   streak, last_handled, frames, alerts, last_frame>>

\* asyncio.sleep(2) in trigger_vapi_call is over: the next attempt.
Retry(i) ==
    /\ runs[i].pc = "backoff"
    /\ runs[i].wake <= now
    /\ runs' = [runs EXCEPT ![i] = Post(@, @.contact, @.attempt + 1)]
    /\ UNCHANGED <<now, site_incidents, contacts, sim_alive, ready, dispatched,
                   streak, last_handled, frames, alerts, last_frame>>

\* The awaited post of a provider that hangs: it ends in the timeout, and
\* the row of the contact is stored.
ProviderHangs(i) ==
    /\ runs[i].pc = "post"
    /\ now = runs[i].wake
    /\ ProviderResponds(i)
    /\ runs'[i].pc = "pace" => runs'[i].calls[Len(runs'[i].calls)].committed

\* asyncio.sleep(1.0) after a contact is over: the next entry of the list.
Advance(i) ==
    /\ runs[i].pc = "pace"
    /\ runs[i].wake <= now
    /\ runs' = [runs EXCEPT ![i] = Continue(@, @.contact + 1)]
    /\ UNCHANGED <<now, site_incidents, contacts, sim_alive, ready, dispatched,
                   streak, last_handled, frames, alerts, last_frame>>

\* Variant: a run that ends without one completed call gives the cooldown back.
Reap_ReleaseOnFailure(i) ==
    /\ runs[i].pc \in {"done", "crashed"}
    /\ runs' = [k \in 1..(Len(runs) - 1) |-> IF k < i THEN runs[k] ELSE runs[k + 1]]
    /\ site_incidents' =
          IF \A k \in 1..Len(runs[i].calls) : runs[i].calls[k].status # "completed"
          THEN [site_incidents EXCEPT ![runs[i].site_id].last_call_time = 0]
          ELSE site_incidents
    /\ UNCHANGED <<now, contacts, sim_alive, ready, dispatched,
                   streak, last_handled, frames, alerts, last_frame>>

\* A task that has returned (or died) is dropped by the event loop.
Reap(i) ==
    /\ runs[i].pc \in {"done", "crashed"}
    /\ runs' = [k \in 1..(Len(runs) - 1) |-> IF k < i THEN runs[k] ELSE runs[k + 1]]
    /\ UNCHANGED <<now, site_incidents, contacts, sim_alive, ready, dispatched,
                   streak, last_handled, frames, alerts, last_frame>>

-----------------------------------------------------------------------------
(* The clock *)

Sleeping(run) == run.pc \in {"post", "backoff", "pace"}

\* A task the event loop runs before it lets time pass.
Runnable(run) ==
    \/ run.pc \in {"start", "done", "crashed"}
    \/ Sleeping(run) /\ run.wake <= now

Timers == { runs[i].wake : i \in { k \in 1..Len(runs) : Sleeping(runs[k]) } }

\* Time passes up to the next timer, or by a sampled step when none is nearer.
Tick ==
    /\ ready = <<>>
    /\ \A i \in 1..Len(runs) : ~Runnable(runs[i])
    /\ \E t \in Timers \cup { now + d : d \in TickSteps } :
          /\ t > now
          /\ t <= StartTime + Horizon
          /\ \A w \in Timers : t <= w
          /\ now' = t
    /\ last_handled' = [site_id |-> "none"]
    /\ UNCHANGED <<site_incidents, contacts, sim_alive, ready, runs, dispatched,
                   streak, frames, alerts, last_frame>>

\* Time passes to the next timer of a task that sleeps or awaits a post,
\* past the horizon of the free advances: a run that is under way there is
\* not cut short (up to a second horizon, which ends the behaviour).
Elapse ==
    /\ ready = <<>>
    /\ \A i \in 1..Len(runs) : ~Runnable(runs[i])
    /\ \E t \in Timers :
          /\ t > now
          /\ t > StartTime + Horizon
          /\ t <= StartTime + 2 * Horizon
          /\ \A w \in Timers : t <= w
          /\ now' = t
    /\ last_handled' = [site_id |-> "none"]
    /\ UNCHANGED <<site_incidents, contacts, sim_alive, ready, runs, dispatched,
                   streak, frames, alerts, last_frame>>

-----------------------------------------------------------------------------
Next ==
    \/ run_simulator
    \/ trigger_vapi_call_manually
    \/ predict_frame
    \/ process_ws_frame
    \/ check_and_trigger
    \/ \E i \in 1..Len(runs) : ExecStart(i)
    \/ \E i \in 1..Len(runs) : ProviderResponds(i)
    \/ \E i \in 1..Len(runs) : Retry(i)
    \/ \E i \in 1..Len(runs) : Advance(i)
    \/ \E i \in 1..Len(runs) : Reap(i)
    \/ Tick

\* The whole system.  The two specifications below are this one started from
\* particular configurations; the properties are checked under them.
Spec == Init /\ [][Next]_vars

\* The incident tracker with the contact file missing (_load_contacts
\* returned []) and no camera client: every run ends at its empty-list check,
\* so the actions of the call sequence are never enabled and are left out,
\* as are the camera handlers.
InitTracker == Init /\ contacts = <<>> /\ frames = 0

NextTracker ==
    \/ run_simulator
    \/ trigger_vapi_call_manually
    \/ check_and_trigger
    \/ \E i \in 1..Len(runs) : ExecStart(i)
    \/ \E i \in 1..Len(runs) : Reap(i)
    \/ Tick

SpecTracker == InitTracker /\ [][NextTracker]_vars

\* The call sequence with some contact file, driven by the manual endpoint
\* alone: the simulator task has ended on a failed commit, no camera client.
InitDispatch ==
    /\ now = StartTime
    /\ site_incidents = <<>>
    /\ contacts \in ContactLists \ {<<>>}
    /\ sim_alive = FALSE
    /\ ready = <<>>
    /\ runs = <<>>
    /\ dispatched = [s \in SITES |-> <<>>]
    /\ streak = [s \in SITES |-> SAFE_FRAME_THRESHOLD]
    /\ last_handled = [site_id |-> "none"]
    /\ frames = 0
    /\ alerts = [k \in AlertKeys |-> <<>>]
    /\ last_frame = [source |-> "none"]

NextDispatch ==
    \/ trigger_vapi_call_manually
    \/ check_and_trigger
    \/ \E i \in 1..Len(runs) : ExecStart(i)
    \/ \E i \in 1..Len(runs) : ProviderResponds(i)
    \/ \E i \in 1..Len(runs) : Retry(i)
    \/ \E i \in 1..Len(runs) : Advance(i)
    \/ \E i \in 1..Len(runs) : Reap(i)
    \/ Tick

SpecDispatch == InitDispatch /\ [][NextDispatch]_vars

\* The dispatcher with any contact list, the empty one included.
InitCooldown ==
    /\ now = StartTime
    /\ site_incidents = <<>>
    /\ contacts \in ContactLists
    /\ sim_alive = FALSE
    /\ ready = <<>>
    /\ runs = <<>>
    /\ dispatched = [s \in SITES |-> <<>>]
    /\ streak = [s \in SITES |-> SAFE_FRAME_THRESHOLD]
    /\ last_handled = [site_id |-> "none"]
    /\ frames = 0
    /\ alerts = [k \in AlertKeys |-> <<>>]
    /\ last_frame = [source |-> "none"]

SpecCooldown == InitCooldown /\ [][NextDispatch]_vars

\* The dispatcher with a list of 18 contacts and a provider that hangs on
\* every invocation: a run then takes 18 x 35 s, more than the cooldown.
InitHung ==
    /\ now = StartTime
    /\ site_incidents = <<>>
    /\ contacts = [k \in 1..18 |-> [name |-> k, phone |-> k]]
    /\ sim_alive = FALSE
    /\ ready = <<>>
    /\ runs = <<>>
    /\ dispatched = [s \in SITES |-> <<>>]
    /\ streak = [s \in SITES |-> SAFE_FRAME_THRESHOLD]
    /\ last_handled = [site_id |-> "none"]
    /\ frames = 0
    /\ alerts = [k \in AlertKeys |-> <<>>]
    /\ last_frame = [source |-> "none"]

NextHung ==
    \/ trigger_vapi_call_manually
    \/ check_and_trigger
    \/ \E i \in 1..Len(runs) : ExecStart(i)
    \/ \E i \in 1..Len(runs) : ProviderHangs(i)
    \/ \E i \in 1..Len(runs) : Retry(i)
    \/ \E i \in 1..Len(runs) : Advance(i)
    \/ \E i \in 1..Len(runs) : Reap(i)
    \/ Tick
    \/ Elapse

SpecHung == InitHung /\ [][NextHung]_vars

\* The dispatcher with its scheduling: the event loop runs every task that
\* is ready, every awaited post returns or times out, and time does pass:
\* requests come at a finite rate, so the loop is idle again and again and
\* the timers that are due then fire.
NextLive == NextDispatch \/ Elapse

Fairness ==
    /\ []<>(ready = <<>>)
    /\ WF_vars(check_and_trigger)
    /\ WF_vars(\E i \in 1..Len(runs) : ExecStart(i))
    /\ WF_vars(\E i \in 1..Len(runs) : ProviderResponds(i))
    /\ WF_vars(\E i \in 1..Len(runs) : Retry(i))
    /\ WF_vars(\E i \in 1..Len(runs) : Advance(i))
    /\ SF_vars(Tick)
    /\ SF_vars(Elapse)

SpecLive == InitDispatch /\ [][NextLive]_vars /\ Fairness

\* The camera handlers and the manual endpoint, with the contact file
\* missing and the simulator task ended.
InitCamera ==
    /\ now = StartTime
    /\ site_incidents = <<>>
    /\ contacts = <<>>
    /\ sim_alive = FALSE
    /\ ready = <<>>
    /\ runs = <<>>
    /\ dispatched = [s \in SITES |-> <<>>]
    /\ streak = [s \in SITES |-> SAFE_FRAME_THRESHOLD]
    /\ last_handled = [site_id |-> "none"]
    /\ frames = MaxFrames
    /\ alerts = [k \in AlertKeys |-> <<>>]
    /\ last_frame = [source |-> "none"]

NextCamera ==
    \/ trigger_vapi_call_manually
    \/ predict_frame
    \/ process_ws_frame
    \/ check_and_trigger
    \/ \E i \in 1..Len(runs) : ExecStart(i)
    \/ \E i \in 1..Len(runs) : Reap(i)
    \/ Tick

SpecCamera == InitCamera /\ [][NextCamera]_vars

\* check_and_trigger on any dict a caller may pass: the readings of the
\* sources with any of site_id, status and turbidity left out.
PartialReadings ==
    { [k \in F \cup {"confidence"} |-> d[k]] :
        d \in simulate_prediction("SITE-02") \cup {mock_prediction},
        F \in SUBSET {"site_id", "status", "turbidity"} }

InitHandle ==
    /\ now = StartTime
    /\ site_incidents = <<>>
    /\ contacts = <<>>
    /\ sim_alive = FALSE
    /\ ready \in { <<d>> : d \in PartialReadings }
                \cup { <<d, e>> : d \in PartialReadings, e \in PartialReadings }
    /\ runs = <<>>
    /\ dispatched = [s \in SITES |-> <<>>]
    /\ streak = [s \in SITES |-> SAFE_FRAME_THRESHOLD]
    /\ last_handled = [site_id |-> "none"]
    /\ frames = 0
    /\ alerts = [k \in AlertKeys |-> <<>>]
    /\ last_frame = [source |-> "none"]

NextHandle ==
    \/ check_and_trigger
    \/ \E i \in 1..Len(runs) : ExecStart(i)
    \/ \E i \in 1..Len(runs) : Reap(i)
    \/ Tick

SpecHandle == InitHandle /\ [][NextHandle]_vars

\* The three handlers that decide on an Alert row, with the simulator's
\* readings sampled for that decision; no contacts, so a run ends at once.
\* The decision does not read the clock: one advance of it is left.
InitAlerts ==
    /\ now = StartTime + Horizon - 301
    /\ site_incidents = <<>>
    /\ contacts = <<>>
    /\ sim_alive = TRUE
    /\ ready = <<>>
    /\ runs = <<>>
    /\ dispatched = [s \in SITES |-> <<>>]
    /\ streak = [s \in SITES |-> SAFE_FRAME_THRESHOLD]
    /\ last_handled = [site_id |-> "none"]
    /\ frames = MaxFrames
    /\ alerts = [k \in AlertKeys |-> <<>>]
    /\ last_frame = [source |-> "none"]

NextAlerts ==
    \/ run_simulator_alerts
    \/ predict_frame
    \/ process_ws_frame
    \/ check_and_trigger
    \/ \E i \in 1..Len(runs) : ExecStart(i)
    \/ \E i \in 1..Len(runs) : Reap(i)
    \/ Tick

SpecAlerts == InitAlerts /\ [][NextAlerts]_vars

\* The alert decision of the frame handler under any classifier.
NextClassifier ==
    \/ classified_frame
    \/ Tick

SpecClassifier == InitCamera /\ [][NextClassifier]_vars

\* The whole system with a contact file of one entry that has a phone
\* number: readings of both sources arrive while call sequences are running.
\* The service is constructed one backoff before the horizon, the time in
\* which a call sequence can take each of its steps.
InitAsync ==
    /\ now = StartTime + Horizon - RETRY_SLEEP
    /\ site_incidents = <<>>
    /\ contacts \in { c \in ContactLists : Len(c) = 1 /\ HasPhone(c[1]) }
    /\ sim_alive = TRUE
    /\ ready = <<>>
    /\ runs = <<>>
    /\ dispatched = [s \in SITES |-> <<>>]
    /\ streak = [s \in SITES |-> SAFE_FRAME_THRESHOLD]
    /\ last_handled = [site_id |-> "none"]
    /\ frames = 0
    /\ alerts = [k \in AlertKeys |-> <<>>]
    /\ last_frame = [source |-> "none"]

\* The event loop with no camera client connected.
NextAsync ==
    \/ run_simulator
    \/ trigger_vapi_call_manually
    \/ check_and_trigger
    \/ \E i \in 1..Len(runs) : ExecStart(i)
    \/ \E i \in 1..Len(runs) : ProviderResponds(i)
    \/ \E i \in 1..Len(runs) : Retry(i)
    \/ \E i \in 1..Len(runs) : Advance(i)
    \/ \E i \in 1..Len(runs) : Reap(i)
    \/ Tick

SpecAsync == InitAsync /\ [][NextAsync]_vars

-----------------------------------------------------------------------------
(* Properties *)

\* A step that runs one check_and_trigger task.
Handling == ready # <<>> /\ ready' = Tail(ready)

\* The reading is critical: status pollutant and turbidity above 45.0 NTU.
CriticalReading(d) == d.status = "pollutant" /\ d.turbidity > 45 * NTU_UNIT

\* The state of a site, NORMAL with no dispatch yet for a site never seen.
StateOf(s) ==
    IF s \in DOMAIN site_incidents THEN site_incidents[s]
    ELSE [in_critical_incident |-> FALSE, last_call_time |-> 0,
          normal_frames |-> 0]

\* C1: any two call dispatches started for the same site are at least
\* COOLDOWN_SECONDS apart, whatever the interleaving of the pending
\* check_and_trigger tasks; in particular two critical readings handled at
\* the same instant never both start one.
C1_DispatchSpacing ==
    \A s \in SITES : \A i, j \in 1..Len(dispatched[s]) :
        i < j => dispatched[s][j] - dispatched[s][i] >= COOLDOWN_SECONDS

\* C1 witness: a site was dispatched twice, the second time at this very
\* instant, and a further critical reading handled at this instant for the
\* same site started nothing.
C1_Witness ==
    \E s \in SITES :
        /\ Len(dispatched[s]) = 2
        /\ dispatched[s][2] = now
        /\ last_handled = [site_id |-> s, critical |-> TRUE, started |-> FALSE]

\* C2: a site is in incident exactly while fewer than SAFE_FRAME_THRESHOLD
\* non-critical readings have been handled since its last critical reading:
\* one critical reading enters the incident, the 10th consecutive
\* non-critical reading (not the 9th) leaves it, and a critical reading in
\* between starts the count again from 0.
C2_Hysteresis ==
    \A s \in SITES :
        /\ StateOf(s).in_critical_incident <=> streak[s] < 10
        /\ StateOf(s).in_critical_incident => StateOf(s).normal_frames = streak[s]

\* C2 witness: a site that was in incident is NORMAL again, the reading just
\* handled being its 10th consecutive non-critical one.
C2_Witness ==
    /\ dispatched["SITE-02"] # <<>>
    /\ ~StateOf("SITE-02").in_critical_incident
    /\ streak["SITE-02"] = 10
    /\ last_handled = [site_id |-> "SITE-02", critical |-> FALSE, started |-> FALSE]

\* C3: a step that handles a critical reading starts a dispatch for the
\* reading's site iff now - last_call_time > COOLDOWN_SECONDS held before it,
\* whether or not the site was already in incident, and a started dispatch
\* sets last_call_time to now in the same step.
C3_DispatchIffExpired ==
    [][ (Handling /\ CriticalReading(Head(ready))) =>
          LET s == Head(ready).site_id
              expired == now - StateOf(s).last_call_time > 600
          IN /\ expired <=>
                   /\ Len(runs') = Len(runs) + 1
                   /\ runs'[Len(runs')].site_id = s
                   /\ runs'[Len(runs')].pc = "start"
                   /\ dispatched'[s] = Append(dispatched[s], now)
             /\ ~expired => (runs' = runs /\ dispatched' = dispatched)
             /\ expired => site_incidents'[s].last_call_time = now
      ]_vars

\* C3 witness: a critical reading was handled exactly COOLDOWN_SECONDS after
\* the site's last dispatch and started none.
C3_Witness ==
    \E s \in SITES :
        /\ last_handled = [site_id |-> s, critical |-> TRUE, started |-> FALSE]
        /\ dispatched[s] # <<>>
        /\ now - dispatched[s][Len(dispatched[s])] = 600

\* C5: a critical reading handled while the site's cooldown has not elapsed
\* starts no dispatch, leaves last_call_time as it was, and leaves the site in
\* incident with normal_frames 0.
C5_SuppressedInCooldown ==
    [][ (/\ Handling
         /\ CriticalReading(Head(ready))
         /\ Head(ready).site_id \in DOMAIN site_incidents
         /\ now - site_incidents[Head(ready).site_id].last_call_time <= 600) =>
          LET s == Head(ready).site_id
          IN /\ runs' = runs
             /\ dispatched' = dispatched
             /\ site_incidents'[s] =
                   [in_critical_incident |-> TRUE,
                    last_call_time |-> site_incidents[s].last_call_time,
                    normal_frames |-> 0]
      ]_vars

\* C5 witness: the simulator's site was dispatched once, 300 s ago, and a
\* critical reading for it has just been handled without a second dispatch.
C5_Witness ==
    /\ Len(dispatched["SITE-02"]) = 1
    /\ now - dispatched["SITE-02"][1] = 300
    /\ site_incidents["SITE-02"].last_call_time = dispatched["SITE-02"][1]
    /\ last_handled = [site_id |-> "SITE-02", critical |-> TRUE, started |-> FALSE]

-----------------------------------------------------------------------------
(* Properties of the call sequence *)

\* The positions of the contact list whose entry has a phone number.
PhoneIndices == { j \in 1..Len(contacts) : "phone" \in DOMAIN contacts[j] }

\* The CallLog rows a run has stored for the entry at position j.
RowsFor(run, j) ==
    { k \in 1..Len(run.calls) :
        run.calls[k].contact = j /\ Len(run.calls[k].rows) = 1 }

\* The writes (_log_call invocations) a run has made for the entry at j.
WritesFor(run, j) == { k \in 1..Len(run.calls) : run.calls[k].contact = j }

\* The run's record of contact j is what _log_call was given, and is stored
\* unless the commit failed.
WriteIsFaithful(run, k) ==
    LET e == run.calls[k]
    IN /\ e.status \in {"completed", "failed"}
       /\ Len(e.rows) = IF e.committed THEN 1 ELSE 0
       /\ e.committed =>
             e.rows[1] = [phone_number |-> contacts[e.contact].phone,
                          status |-> e.status,
                          contamination_score |-> run.score,
                          site_id |-> run.site_id]

\* A finished run has written once for each entry with a phone, and for no other.
CoversCallable(run) ==
    /\ \A j \in PhoneIndices : Cardinality(WritesFor(run, j)) = 1
    /\ \A j \in (1..Len(contacts)) \ PhoneIndices : WritesFor(run, j) = {}
    /\ \A k \in 1..Len(run.calls) : WriteIsFaithful(run, k)

\* C4 (as stated): the run started by the first critical reading of a site
\* stores one CallAttempt row for every entry of the contact list.
C4_FirstRunOneRowPerContact ==
    \A i \in 1..Len(runs) :
        (runs[i].pc = "done" /\ Len(dispatched[runs[i].site_id]) = 1) =>
            \A j \in 1..Len(contacts) : Cardinality(RowsFor(runs[i], j)) = 1

\* C4 (amended): the first critical reading of a site never seen before puts
\* the site in incident and starts a dispatch, and that dispatch, once it has
\* run to its end, has made one CallAttempt write for each contact that has a
\* phone number (stored unless the database write failed) and none for an
\* entry without one.
C4_FirstCriticalDispatches ==
    /\ [][ (/\ Handling
            /\ CriticalReading(Head(ready))
            /\ Head(ready).site_id \notin DOMAIN site_incidents) =>
             LET s == Head(ready).site_id
             IN /\ s \in DOMAIN site_incidents'
                /\ site_incidents'[s].in_critical_incident
                /\ dispatched'[s] = <<now>>
                /\ Len(runs') = Len(runs) + 1
                /\ runs'[Len(runs')].site_id = s
                /\ runs'[Len(runs')].pc = "start"
         ]_vars
    /\ [](\A i \in 1..Len(runs) :
            (runs[i].pc = "done" /\ Len(dispatched[runs[i].site_id]) = 1) =>
                CoversCallable(runs[i]))

\* C4 witness: the run of a fresh site's first critical reading has ended,
\* with a stored row for each of two contacts, and the site is in incident.
C4_Witness ==
    /\ Len(contacts) = 2
    /\ Len(dispatched["TEST-SITE"]) = 1
    /\ "TEST-SITE" \in DOMAIN site_incidents
    /\ site_incidents["TEST-SITE"].in_critical_incident
    /\ \E i \in 1..Len(runs) :
          /\ runs[i].pc = "done"
          /\ runs[i].site_id = "TEST-SITE"
          /\ \A j \in 1..2 : Cardinality(RowsFor(runs[i], j)) = 1

\* C6 (as stated): every run that has ended has stored exactly one
\* CallAttempt row for each entry of the contact list.
C6_OneRowPerEntry ==
    \A i \in 1..Len(runs) :
        runs[i].pc = "done" =>
            /\ \A j \in 1..Len(contacts) : Cardinality(RowsFor(runs[i], j)) = 1
            /\ \A k \in 1..Len(runs[i].calls) : Len(runs[i].calls[k].rows) <= 1

\* C6 (amended): every run that has ended has made exactly one CallAttempt
\* write for each entry that has a phone number, whether its call completed
\* or failed, and none for an entry without a phone number; the row written
\* is stored unless the database write failed.
C6_OneWritePerCallable ==
    \A i \in 1..Len(runs) :
        runs[i].pc = "done" =>
            /\ CoversCallable(runs[i])
            /\ Len(runs[i].calls) = Cardinality(PhoneIndices)

\* C6 witness: a run has ended with two stored rows, one for a completed call
\* and one for a failed call.
C6_Witness ==
    \E i \in 1..Len(runs) :
        /\ runs[i].pc = "done"
        /\ Len(runs[i].calls) = 2
        /\ runs[i].calls[1].status = "failed"
        /\ runs[i].calls[2].status = "completed"
        /\ \A k \in 1..2 : Len(runs[i].calls[k].rows) = 1

\* C7: for each contact of a run the provider is invoked at most
\* max_retries + 1 = 3 times; no invocation follows a success; the recorded
\* status is "completed" iff an invocation returned success and "failed"
\* otherwise; consecutive invocations are separated by the 2 s backoff and
\* the outcome is fixed at the instant the last invocation ends.
C7_RetryBudget ==
    \A i \in 1..Len(runs) :
        LET run == runs[i]
            a == run.attempts
            n == Len(a)
        IN /\ n + (IF run.pc = "post" THEN 1 ELSE 0) <= 3
           /\ \A k \in 1..(n - 1) : ~a[k].ok /\ a[k + 1].at >= a[k].end + 2
           /\ (run.pc \in {"post", "backoff"} /\ n >= 1) =>
                 ~a[n].ok /\ run.wake >= a[n].end + 2
           /\ (run.pc = "post" /\ n >= 1) => run.issued >= a[n].end + 2
           /\ run.pc = "pace" =>
                 LET e == run.calls[Len(run.calls)]
                 IN /\ n >= 1
                    /\ e.tries = n
                    /\ e.status = "completed" <=> a[n].ok
                    /\ e.status = "failed" <=> (n = 3 /\ \A k \in 1..n : ~a[k].ok)
                    /\ e.done_at = a[n].end
           /\ \A k \in 1..Len(run.calls) :
                 /\ run.calls[k].tries \in 1..3
                 /\ run.calls[k].status = "failed" => run.calls[k].tries = 3

\* C7 witness: a contact has just been recorded as completed on its third
\* invocation, after a contact that failed all three.
C7_Witness ==
    \E i \in 1..Len(runs) :
        /\ runs[i].pc = "pace"
        /\ Len(runs[i].calls) = 2
        /\ runs[i].calls[1].status = "failed"
        /\ runs[i].calls[2].status = "completed"
        /\ Len(runs[i].attempts) = 3
        /\ runs[i].attempts[3].ok

\* C8: within a run the contacts are handled in list order, one at a time:
\* the first invocation for a contact comes at least 1 s after the previous
\* contact's outcome was determined and written.
C8_OrderedAndPaced ==
    \A i \in 1..Len(runs) :
        LET run == runs[i]
            c == run.calls
            first == IF run.attempts = <<>> THEN run.issued ELSE run.attempts[1].at
        IN /\ \A k \in 1..Len(c) : c[k].first_at <= c[k].done_at
           /\ \A k \in 1..(Len(c) - 1) :
                 /\ c[k].contact < c[k + 1].contact
                 /\ c[k + 1].first_at >= c[k].done_at + 1
           /\ (run.pc \in {"post", "backoff"} /\ c # <<>>) =>
                 /\ c[Len(c)].contact < run.contact
                 /\ first >= c[Len(c)].done_at + 1

\* C8 witness: the invocation for the second contact is in flight, issued
\* exactly 1 s after the first contact's row was written.
C8_Witness ==
    \E i \in 1..Len(runs) :
        /\ runs[i].pc = "post"
        /\ Len(runs[i].calls) = 1
        /\ runs[i].contact = 2
        /\ runs[i].issued = runs[i].calls[1].done_at + 1

\* C9: an invocation that raises or returns a non-success status never ends
\* the run: no run dies, a contact whose invocations all failed is recorded
\* as "failed", and after its pause the run goes on to the next entry that
\* has a phone number (or ends when there is none).
C9_FailuresContained ==
    /\ [](\A i \in 1..Len(runs) :
            /\ runs[i].pc # "crashed"
            /\ (runs[i].pc = "pace"
                  /\ \A k \in 1..Len(runs[i].attempts) : ~runs[i].attempts[k].ok)
               => /\ runs[i].calls[Len(runs[i].calls)].status = "failed"
                  /\ runs[i].calls[Len(runs[i].calls)].tries = 3)
    /\ [][ \A i \in 1..Len(runs) :
             (Len(runs') = Len(runs) /\ runs[i].pc = "pace" /\ runs'[i] # runs[i]) =>
                LET later == { j \in PhoneIndices : j > runs[i].contact }
                IN IF later = {}
                   THEN runs'[i].pc = "done"
                   ELSE /\ runs'[i].pc = "post"
                        /\ runs'[i].contact \in later
                        /\ \A j \in later : runs'[i].contact <= j
         ]_vars

\* C9 witness: a run has ended after its first contact failed with all three
\* invocations timing out (10 + 2 + 10 + 2 + 10 s) and its second contact
\* was called all the same.
C9_Witness ==
    \E i \in 1..Len(runs) :
        /\ runs[i].pc = "done"
        /\ Len(runs[i].calls) = 2
        /\ runs[i].calls[1].status = "failed"
        /\ runs[i].calls[1].done_at - runs[i].calls[1].first_at = 34
        /\ runs[i].calls[2].tries >= 1

\* C10: what a run does for a contact does not depend on how earlier
\* contacts ended: the contacts called so far are always the first entries
\* with a phone number, in order and without gaps, whatever their statuses,
\* and a run only ends once all of them were called.
C10_NoShortCircuit ==
    \A i \in 1..Len(runs) :
        LET run == runs[i]
            rank(j) == Cardinality({ x \in PhoneIndices : x <= j })
        IN /\ \A k \in 1..Len(run.calls) :
                 run.calls[k].contact \in PhoneIndices
                 /\ rank(run.calls[k].contact) = k
           /\ run.pc \in {"post", "backoff"} =>
                 run.contact \in PhoneIndices
                 /\ rank(run.contact) = Len(run.calls) + 1
           /\ run.pc = "done" => Len(run.calls) = Cardinality(PhoneIndices)

\* C10 witness: a run has ended having called its second contact although
\* the first contact's call had completed.
C10_Witness ==
    \E i \in 1..Len(runs) :
        /\ runs[i].pc = "done"
        /\ Len(runs[i].calls) = 2
        /\ runs[i].calls[1].status = "completed"
        /\ runs[i].calls[2].status = "failed"

-----------------------------------------------------------------------------
(* Failures of the stores and the asynchrony of the call sequence *)

\* A step in which run i ends a contact's call (its outcome is fixed and
\* _log_call is invoked).
EndsCall(i) ==
    /\ Len(runs') = Len(runs)
    /\ runs[i].pc = "post"
    /\ runs'[i].pc # "post"
    /\ runs'[i].pc # "backoff"

\* C11: when the commit of a CallAttempt row fails, the failure stays inside
\* _log_call: the run goes on to its pacing sleep as after a stored row,
\* the step changes no incident or cooldown state and starts nothing, and a
\* run still ends only after every contact with a phone number was called
\* and a write was made for it.
C11_WriteFailureContained ==
    /\ [][ \A i \in 1..Len(runs) :
             EndsCall(i) =>
                /\ runs'[i].pc = "pace"
                /\ Len(runs'[i].calls) = Len(runs[i].calls) + 1
                /\ runs'[i].wake = now + 1
                /\ site_incidents' = site_incidents
                /\ dispatched' = dispatched
                /\ ready' = ready
         ]_vars
    /\ [](\A i \in 1..Len(runs) :
            /\ runs[i].pc # "crashed"
            /\ runs[i].pc = "done" =>
                  \A j \in PhoneIndices : WritesFor(runs[i], j) # {})

\* C11 witness: a run has ended whose write for the first contact failed and
\* whose second contact was called, with its row stored.
C11_Witness ==
    \E i \in 1..Len(runs) :
        /\ runs[i].pc = "done"
        /\ Len(runs[i].calls) = 2
        /\ ~runs[i].calls[1].committed
        /\ runs[i].calls[1].rows = <<>>
        /\ Len(runs[i].calls[2].rows) = 1

\* C12: with an empty contact list (the file was empty or could not be
\* loaded) a dispatch run that was started invokes the provider not once,
\* writes no CallAttempt, and returns at its first step without raising.
C12_EmptyListNoOp ==
    /\ [](contacts = <<>> =>
            \A i \in 1..Len(runs) :
                /\ runs[i].pc \in {"start", "done"}
                /\ runs[i].attempts = <<>>
                /\ runs[i].calls = <<>>
                /\ runs[i].issued = 0)
    /\ [][ \A i \in 1..Len(runs) :
             (contacts = <<>> /\ Len(runs') = Len(runs) /\ runs[i].pc = "start"
                /\ runs'[i] # runs[i]) =>
                 runs'[i] = [runs[i] EXCEPT !.pc = "done"]
         ]_vars

\* C12 witness: with no contacts, a critical reading started a run and the
\* run has returned with nothing called and nothing written.
C12_Witness ==
    /\ contacts = <<>>
    /\ dispatched["TEST-SITE"] # <<>>
    /\ \E i \in 1..Len(runs) :
          /\ runs[i].site_id = "TEST-SITE"
          /\ runs[i].pc = "done"
          /\ runs[i].calls = <<>>

\* Run i has invoked the provider and has not ended.
InFlight(i) == runs[i].pc \in {"post", "backoff", "pace"}

\* C13: the step that handles a reading invokes no provider: a dispatch it
\* starts is a new task that has done nothing yet, and the runs that exist
\* are left as they are.  A pending reading is handled whatever the runs are
\* doing, and the steps of a run (its failures included) leave the pending
\* readings and the incident state alone.
C13_DispatchIsAsynchronous ==
    /\ [][ Handling =>
             /\ \A i \in 1..Len(runs) : runs'[i] = runs[i]
             /\ Len(runs') \in {Len(runs), Len(runs) + 1}
             /\ Len(runs') = Len(runs) + 1 =>
                   LET r == runs'[Len(runs')]
                   IN /\ r.pc = "start"
                      /\ r.issued = 0
                      /\ r.attempts = <<>>
                      /\ r.calls = <<>>
         ]_vars
    /\ [][ (runs' # runs /\ ~Handling) =>
             (ready' = ready /\ site_incidents' = site_incidents) ]_vars
    /\ [](ready # <<>> => ENABLED check_and_trigger)

\* C13 witness: while the run of SITE-02 is between two invocations, its
\* first one having failed, a non-critical reading for SITE-02 has been
\* handled and counted, and a reading for TEST-SITE has started a run.
C13_Witness ==
    /\ \E i \in 1..Len(runs) :
          /\ runs[i].site_id = "SITE-02"
          /\ runs[i].pc = "backoff"
    /\ "SITE-02" \in DOMAIN site_incidents
    /\ site_incidents["SITE-02"].normal_frames = 1
    /\ last_handled = [site_id |-> "TEST-SITE", critical |-> TRUE, started |-> TRUE]

-----------------------------------------------------------------------------
(* Properties of the alerts and of the paths a reading takes *)

\* C14: two alert rows of the same (site, severity), both from readings with
\* confidence at or above 60.0, are at least 30 s apart.
C14_AlertSpacing ==
    \A k \in AlertKeys :
        (/\ Len(alerts[k]) = 2
         /\ alerts[k][1].confidence >= 600
         /\ alerts[k][2].confidence >= 600) =>
            alerts[k][2].at - alerts[k][1].at >= 30

C16_BothPathsEvaluated ==
    [][ /\ (frames' < frames /\ last_frame'.stored) =>
               ready' = Append(ready, last_frame'.data)
        /\ Len(ready') = Len(ready) + 1 =>
               alerts' = Emit(alerts, ready'[Len(ready')])
      ]_vars

\* A step of the simulator loop: its reading is queued, or its task ends.
SimulatorStep ==
    /\ sim_alive
    /\ \/ ~sim_alive'
       \/ /\ Len(ready') = Len(ready) + 1
          /\ ready'[Len(ready')].site_id = "SITE-02"

\* C18: an iteration of the simulator whose commit fails still hands its
\* reading to check_and_trigger, and the loop goes on to the next reading.
C18_PersistFailureTolerated ==
    [][ SimulatorStep =>
          /\ sim_alive'
          /\ Len(ready') = Len(ready) + 1
      ]_vars

\* The reading lacks one of the fields check_and_trigger reads.
MissingField(d) == {"site_id", "status", "turbidity"} \ DOMAIN d # {}

\* C17: handling a reading with a missing field touches no
\* state: no IncidentState is created or modified and no dispatch starts.
C17_MalformedRejected ==
    [][ (Handling /\ MissingField(Head(ready))) =>
          /\ site_incidents' = site_incidents
          /\ runs' = runs
          /\ dispatched' = dispatched
      ]_vars

\* C19: handling a reading of site a leaves the IncidentState (and its
\* presence) and the dispatches of every other site unchanged, and whether a
\* dispatch starts depends on the reading and on a's own last_call_time only:
\* another site's dispatch or cooldown neither suppresses nor triggers it.
C19_SitesIndependent ==
    [][ Handling =>
          LET d == Head(ready)
              a == d.site_id
          IN /\ \A b \in SITES \ {a} :
                   /\ b \in DOMAIN site_incidents' <=> b \in DOMAIN site_incidents
                   /\ b \in DOMAIN site_incidents =>
                         site_incidents'[b] = site_incidents[b]
                   /\ dispatched'[b] = dispatched[b]
             /\ dispatched'[a] # dispatched[a] <=>
                   (CriticalReading(d) /\ now - StateOf(a).last_call_time > 600)
             /\ runs' # runs =>
                   /\ dispatched'[a] # dispatched[a]
                   /\ runs'[Len(runs')].site_id = a
      ]_vars

\* C19 witness: TEST-SITE has just dispatched while SITE-02, which dispatched
\* earlier, is inside its cooldown and in incident.
C19_Witness ==
    /\ last_handled = [site_id |-> "TEST-SITE", critical |-> TRUE, started |-> TRUE]
    /\ dispatched["TEST-SITE"] = <<now>>
    /\ Len(dispatched["SITE-02"]) = 1
    /\ now - dispatched["SITE-02"][1] \in 1..600
    /\ "SITE-02" \in DOMAIN site_incidents
    /\ site_incidents["SITE-02"].in_critical_incident
    /\ site_incidents["SITE-02"].last_call_time = dispatched["SITE-02"][1]

\* C20: every CallLog row a run has written carries the site_id of the
\* reading that triggered the run and min(1.0, turbidity / 100.0) of that
\* reading as contamination_score, and so do the arguments the run holds for
\* the rows to come, whatever was handled since the run was started.
C20_RowsCarryTrigger ==
    \A i \in 1..Len(runs) :
        LET run == runs[i]
            site == run.trigger.site_id
            score == IF run.trigger.turbidity >= 10000 THEN 10000
                     ELSE run.trigger.turbidity
        IN /\ run.site_id = site
           /\ run.score = score
           /\ \A k \in 1..Len(run.calls) :
                 \A r \in 1..Len(run.calls[k].rows) :
                     /\ run.calls[k].rows[r].site_id = site
                     /\ run.calls[k].rows[r].contamination_score = score

\* C20 witness: a run started by a SITE-02 reading of 120 NTU stores its row,
\* with score 1.0, after a failed first invocation; in the meantime a
\* TEST-SITE reading has started a later run whose post is under way, and a
\* non-critical SITE-02 reading has been counted.
C20_Witness ==
    \E i, j \in 1..Len(runs) :
        /\ i < j
        /\ runs[i].trigger.site_id = "SITE-02"
        /\ runs[i].trigger.turbidity = 12000
        /\ runs[i].pc = "pace"
        /\ Len(runs[i].calls) = 1
        /\ runs[i].calls[1].tries = 2
        /\ runs[i].calls[1].done_at = now
        /\ runs[i].calls[1].rows # <<>>
        /\ runs[i].calls[1].rows[1].contamination_score = 10000
        /\ runs[i].calls[1].rows[1].site_id = "SITE-02"
        /\ runs[j].trigger.site_id = "TEST-SITE"
        /\ runs[j].pc = "post"
        /\ runs[j].issued < now
        /\ site_incidents["SITE-02"].normal_frames >= 1

-----------------------------------------------------------------------------
(* The alert decision, the outcomes of a reading, and the time of a contact *)

\* The step stores a reading: an iteration of the simulator that commits,
\* or a camera frame that is classified and committed.
SimulatorStores ==
    /\ sim_alive
    /\ Len(ready') = Len(ready) + 1
    /\ ready'[Len(ready')].site_id = "SITE-02"

CameraStores == frames' < frames /\ last_frame'.stored

\* One row, of reading d at this instant, is added under key k.
OneRowAdded(k, d) ==
    LET row == [at |-> now, confidence |-> d.confidence]
    IN alerts'[k] = IF Len(alerts[k]) < 2 THEN Append(alerts[k], row)
                    ELSE <<alerts[k][2], row>>

\* C21: a stored reading adds exactly one Alert row, critical, for its site
\* iff its status is pollutant; exactly one, warning, iff its status is
\* moderate and its turbidity is above 15 NTU; and none in any other case.
\* No other key of the table changes, whatever the confidence, the site's
\* incident state or the earlier alerts.
C21_AlertDecision ==
    [][ (SimulatorStores \/ CameraStores) =>
          LET d == IF CameraStores THEN last_frame'.data ELSE ready'[Len(ready')]
          IN \A k \in AlertKeys :
                IF k = <<d.site_id, "critical">>
                THEN IF d.status = "pollutant" THEN OneRowAdded(k, d)
                     ELSE alerts'[k] = alerts[k]
                ELSE IF k = <<d.site_id, "warning">>
                THEN IF d.status = "moderate" /\ d.turbidity > 1500
                     THEN OneRowAdded(k, d)
                     ELSE alerts'[k] = alerts[k]
                ELSE alerts'[k] = alerts[k]
      ]_vars

\* C21 witness: a camera frame classified moderate at exactly 15.0 NTU has
\* been stored without an alert, after the simulator stored a pollutant
\* reading of 45.0 NTU with its critical alert and a moderate reading of
\* 15.01 NTU with its warning.
C21_Witness ==
    /\ last_frame.source # "none"
    /\ last_frame.stored
    /\ last_frame.data.status = "moderate"
    /\ last_frame.data.turbidity = 1500
    /\ alerts[<<"SITE-01", "warning">>] = <<>>
    /\ alerts[<<"SITE-01", "critical">>] = <<>>
    /\ Len(alerts[<<"SITE-02", "critical">>]) = 1
    /\ Len(alerts[<<"SITE-02", "warning">>]) = 1
    /\ dispatched["SITE-02"] = <<>>

\* The alert rows of a site stored at this instant.
AlertedNow(site) ==
    { k \in AlertKeys : /\ k[1] = site
                        /\ \E r \in 1..Len(alerts[k]) : alerts[k][r].at = now }

SpentOnCurrent(run) ==
    IF run.attempts = <<>> THEN now - run.issued ELSE now - run.attempts[1].at

SpentOn(run, k) == run.calls[k].done_at - run.calls[k].first_at

\* C23: from the first invocation for a contact to its outcome no more than
\* timeout x (retries + 1) = 30 s pass.
C23_ContactWithin30 ==
    \A i \in 1..Len(runs) :
        /\ \A k \in 1..Len(runs[i].calls) : SpentOn(runs[i], k) <= 30
        /\ runs[i].pc \in {"post", "backoff"} => SpentOnCurrent(runs[i]) <= 30

\* C23 (amended): the two pauses of 2 s between the invocations count as
\* well: from the first invocation for a contact to its outcome no more
\* than 10 s x 3 + 2 s x 2 = 34 s pass, and a contact whose outcome took
\* more than 30 s had three invocations that all failed.
C23_ContactWithin34 ==
    \A i \in 1..Len(runs) :
        /\ \A k \in 1..Len(runs[i].calls) :
              /\ SpentOn(runs[i], k) <= 34
              /\ SpentOn(runs[i], k) > 20 =>
                    /\ runs[i].calls[k].tries = 3
              /\ SpentOn(runs[i], k) > 30 =>
                    /\ runs[i].calls[k].status = "failed"
        /\ runs[i].pc \in {"post", "backoff"} => SpentOnCurrent(runs[i]) <= 34

\* C23 witness: a contact whose three invocations all ran into the timeout
\* has just been recorded as failed, 34 s after its first invocation.
C23_Witness ==
    \E i \in 1..Len(runs) :
        /\ runs[i].pc = "pace"
        /\ Len(runs[i].attempts) = 3
        /\ \A a \in 1..3 : runs[i].attempts[a].end - runs[i].attempts[a].at = 10
        /\ runs[i].calls[Len(runs[i].calls)].status = "failed"
        /\ runs[i].calls[Len(runs[i].calls)].done_at = now
        /\ SpentOn(runs[i], Len(runs[i].calls)) = 34

\* C24: a dispatch run that has been started gets to the end of the contact
\* list, and no run dies on the way, whatever the provider returns and
\* whether or not the rows can be written.
C24_RunsFinish ==
    /\ (\E i \in 1..Len(runs) : runs[i].pc # "done")
          ~> (\A i \in 1..Len(runs) : runs[i].pc = "done")
    /\ [](\A i \in 1..Len(runs) : runs[i].pc # "crashed")

\* C24 witness: a run is at its end after two contacts that both ran into
\* the timeout on every invocation, 70 s after its first invocation.
C24_Witness ==
    \E i \in 1..Len(runs) :
        /\ runs[i].pc = "done"
        /\ Len(runs[i].calls) = 2
        /\ \A k \in 1..2 : /\ runs[i].calls[k].status = "failed"
                            /\ SpentOn(runs[i], k) = 34
        /\ now - runs[i].calls[1].first_at = 70

-----------------------------------------------------------------------------
(* Invariants and frame conditions of the incident state *)

\* C25: for every tracked site the counter of safe readings is in 0..9 and
\* is 0 when the site is not in incident; right after a critical reading
\* the site is in incident with the counter at 0; and a tracked site stays
\* in the map.
C25_StateInvariant ==
    /\ [](\A s \in DOMAIN site_incidents :
            /\ site_incidents[s].normal_frames \in 0..9
            /\ ~site_incidents[s].in_critical_incident =>
                  site_incidents[s].normal_frames = 0)
    /\ [][ /\ DOMAIN site_incidents \subseteq DOMAIN site_incidents'
           /\ (Handling /\ CriticalReading(Head(ready))) =>
                 /\ site_incidents'[Head(ready).site_id].in_critical_incident
                 /\ site_incidents'[Head(ready).site_id].normal_frames = 0
      ]_vars

\* C25 witness: SITE-02 is in incident with nine safe readings counted,
\* and TEST-SITE, tracked since an earlier instant, is in incident too.
C25_Witness ==
    /\ "SITE-02" \in DOMAIN site_incidents
    /\ site_incidents["SITE-02"].in_critical_incident
    /\ site_incidents["SITE-02"].normal_frames = 9
    /\ "TEST-SITE" \in DOMAIN site_incidents
    /\ site_incidents["TEST-SITE"].in_critical_incident
    /\ site_incidents["TEST-SITE"].last_call_time < now

C27_CooldownConsumed ==
    /\ [][ site_incidents' # site_incidents => Handling ]_vars
    /\ [][ \A s \in DOMAIN site_incidents' :
             site_incidents'[s].last_call_time # StateOf(s).last_call_time =>
                /\ Handling
                /\ Head(ready).site_id = s
                /\ site_incidents'[s].last_call_time = now
                /\ dispatched'[s] = Append(dispatched[s], now) ]_vars
    /\ [](\A s \in DOMAIN site_incidents :
            site_incidents[s].last_call_time =
               IF dispatched[s] = <<>> THEN 0
               ELSE dispatched[s][Len(dispatched[s])])
    /\ [][ (Handling /\ dispatched[Head(ready).site_id] # <<>>) =>
             LET s == Head(ready).site_id
                 last == dispatched[s][Len(dispatched[s])]
             IN now - last <= 600 => dispatched'[s] = dispatched[s] ]_vars

\* C27 witness: the run of TEST-SITE is at its end with every contact
\* failed, and a critical reading for TEST-SITE handled at this instant,
\* within the cooldown, has started nothing.
C27_Witness ==
    /\ \E i \in 1..Len(runs) :
          /\ runs[i].site_id = "TEST-SITE"
          /\ runs[i].pc = "done"
          /\ runs[i].calls # <<>>
          /\ \A k \in 1..Len(runs[i].calls) : runs[i].calls[k].status = "failed"
    /\ last_handled = [site_id |-> "TEST-SITE", critical |-> TRUE, started |-> FALSE]
    /\ Len(dispatched["TEST-SITE"]) = 1
    /\ now - dispatched["TEST-SITE"][1] \in 1..600
    /\ site_incidents["TEST-SITE"].last_call_time = dispatched["TEST-SITE"][1]

-----------------------------------------------------------------------------
(* Runs of one site, entries without a phone, and the rows ever written *)

\* C28: no two runs of one site are under way together: of any two, one
\* has reached the end of the contact list.
C28_NoOverlap ==
    \A i, j \in 1..Len(runs) :
        (i < j /\ runs[i].site_id = runs[j].site_id) =>
            (runs[i].pc = "done" \/ runs[j].pc = "done")

\* The instant the run was started: the last dispatch of its site.
StartedAt(run) == dispatched[run.site_id][Len(dispatched[run.site_id])]

\* C29: an entry without a phone costs a run nothing: the entry a run is
\* calling, retrying or pausing after always has a phone, and so has every
\* entry it wrote for; the first call is issued at the instant of the
\* dispatch and each further one exactly 1 s after the previous outcome,
\* whatever entries lie before or between; and the run is at its end 1 s
\* after its last outcome, or at once when no entry has a phone.
C29_NoPhoneSkipped ==
    \A i \in 1..Len(runs) :
        LET run == runs[i]
            c == run.calls
            first == IF run.attempts = <<>> THEN run.issued ELSE run.attempts[1].at
        IN /\ Sleeping(run) => "phone" \in DOMAIN contacts[run.contact]
           /\ \A k \in 1..Len(c) : "phone" \in DOMAIN contacts[c[k].contact]
           /\ c # <<>> => c[1].first_at = StartedAt(run)
           /\ \A k \in 1..(Len(c) - 1) : c[k + 1].first_at = c[k].done_at + 1
           /\ (run.pc \in {"post", "backoff"}) =>
                 first = IF c = <<>> THEN StartedAt(run) ELSE c[Len(c)].done_at + 1
           /\ run.pc = "done" =>
                 now = IF c = <<>> THEN StartedAt(run) ELSE c[Len(c)].done_at + 1

\* C29 witness: the first entry of the list has no phone, and the run's
\* post to the second entry is issued at the instant of the dispatch,
\* nothing having been tried or written before.
C29_Witness ==
    /\ Len(contacts) = 2
    /\ "phone" \notin DOMAIN contacts[1]
    /\ \E i \in 1..Len(runs) :
          /\ runs[i].pc = "post"
          /\ runs[i].contact = 2
          /\ runs[i].attempts = <<>>
          /\ runs[i].calls = <<>>
          /\ runs[i].issued = now
          /\ StartedAt(runs[i]) = now

====
